---- MODULE Spec2Model ----
(***************************************************************************)
(* State-machine model of libaxidma's DMACtrl (src/src/dmactrl.cpp): the   *)
(* AXI DMA controller driver with its register window, scatter-gather      *)
(* descriptor ring and the polling receive loop rx().                      *)
(*                                                                         *)
(* 32-bit quantities stay far below 2^31 for the inputs drawn here, so     *)
(* uint32_t arithmetic coincides with integer arithmetic; the narrowings   *)
(* to uint8_t and uint16_t that the code performs are modelled explicitly. *)
(***************************************************************************)
EXTENDS Integers, Sequences, FiniteSets, TLC

\* ------------------------------------------------------------------ bounds
\* largest descriptor count given to initSG
MaxN == 3
\* largest value the engine shows in the IRQ-threshold byte DMASR[23:16]
MaxIrq == 4
\* most sleeps one rx(0) call is followed through (nloops is capped here)
MaxPolls == 11
\* largest batch index given to incSGDescTable
MaxInc == 1
\* largest descriptor count and batch index of the descriptor-table slice
MaxTableN == 4
MaxTableInc == 2
\* descriptor-array mappings counted per process
MaxBdMaps == 2
\* most descriptors and most mappings one DMABuffer object is followed
\* through acquiring
MaxOpens == 2
\* sleeps followed one by one at either end of a lap of waitTime
MaxTail == 3

\* --------------------------------------------------------- program constants
NXTDESC == 0
BUFFER_ADDRESS == 8
CONTROL == 24
STATUS == 28
DESC_SIZE == 64

minLoop == 5
maxLoop == 10
minWait == 100
maxWait == 10000

\* ------------------------------------------------------------------ inputs
Channels == {"MM2S", "S2MM", "UNKNOWN"}
\* rx timeouts in microseconds: 0 (infinite, adaptive) and one nonzero budget
\* that is not a multiple of minWait
Timeouts == {0, 250}
\* (descriptor base, target address) pairs and block sizes given to initSG
DescBases == {4096}
TargetAddrs == {28672}
BlockSizes == {2048}
\* what a never-assigned unsigned int field may hold
UninitWords == {0, 65536}
\* a word of freshly mapped descriptor memory before initSGDescriptors runs
JunkWords == {0, 43690}
\* the inputs of the descriptor-table slice, <<baseaddr, blocksize, tgtaddr>>:
\* initSG is also given the addresses 0x10000000 and 0x70000000 of scenario S2
TableInputs == {<<4096, 4096, 28672>>, <<268435456, 2048, 1879048192>>}
\* what the engine leaves in the STATUS word of a descriptor it has filled
\* (the transferred-bytes field)
StatusWords == {2048}

\* error conditions (the what() of the runtime_error, without the __func__ prefix)
E_CHANNEL == "DMA channel is not set"
E_NOTDIRECT == "DMA channel is not configured for Direct mode"
E_NOTSG == "DMA channel is not configured for Scatter-Gather mode"
E_NOINIT == "Scatter-Gather is not initialized"
E_NOTS2MM == "DMA Scatter-Gather channel != S2MM"
E_NOTRUNNING == "DMA channel is not running"
E_BOUND == "descriptor is out of bound"
\* the outcome of a call that ends in a memory fault
SIGSEGV == "SIGSEGV"
Errors == {E_CHANNEL, E_NOTDIRECT, E_NOTSG, E_NOINIT, E_NOTS2MM, E_NOTRUNNING, E_BOUND}

VARIABLES
    channel,          \* DMACtrl::channel
    regs,             \* DMACtrl::regs, the offset table in use: "none", "mm2s", "s2mm"
    sgIncluded,       \* DMASR bit 3 as the synthesised core shows it (never changes)
    status,           \* DMASR word the latest rx call read last: by isRunning()
                      \* until it returns, by its final poll afterwards
    bdmem,            \* descriptor memory, word index -> value (<<>> before initSG)
    size, descaddr, targetaddr, ndesc,
    blockOffset, blockSize,
    bdStartIndex, bdStopIndex,
    curWait, lastIrqThreshold,
    initsg, blockTransfer, bufferTransfer,
    pc,               \* "ready": no call in progress; "poll": inside an rx polling loop;
                      \* "zero", "write", "term", "curdesc", "flag": the statement of
                      \* initSGDescriptors that a stepwise initSG executes next
    initIndex,        \* local i of initSGDescriptors
    rxMode,           \* variant the latest rx call dispatched to
    timeout, step, waitTime, nloops,   \* parameter and locals of the rx in progress
    timeoutHi, waitTimeHi,             \* bits 31..30 of the uint32_t timeout and
                                       \* waitTime, whose bits 29..0 are above
    lastOp, result,   \* latest call (or engine write) and its outcome
    wlog,             \* register writes of the latest call, in order: <<offset, value>>
    pre,              \* descriptor cursors as they were when the latest rx call began
    incIndex,         \* argument of the latest incSGDescTable since initSG (0 if none)
    args,             \* arguments of the latest call
    started,          \* runSG has started the engine since construction
    hw,               \* the engine since it was last started: the IRQ-threshold
                      \* byte it shows and whether it has gone idle
    nrx,              \* rx calls made since construction, counted up to 2
    got,              \* descriptor word the latest getSGDescBufferAddress read:
                      \* <<word index, value>>, <<>> after any other call
    dh, mem,          \* DMACtrl::dh (-1: open failed) and DMACtrl::mem, the register
                      \* window ("mapped", "failed" for MAP_FAILED, "unmapped")
    life,             \* the DMACtrl object: "live", "destroyed", "crashed"
    fd, buf,          \* DMABuffer::fd and DMABuffer::buf ("unset", "mapped", "failed")
    blife,            \* the DMABuffer object: "live", "destroyed"
    fds,              \* open file descriptors of the process, by device: a count each
    maps              \* live mappings of the process, by kind: a count each

ctrl == <<channel, regs, size, descaddr, targetaddr, ndesc, blockOffset, blockSize,
          bdStartIndex, bdStopIndex, curWait, lastIrqThreshold, initsg,
          blockTransfer, bufferTransfer>>
loopv == <<pc, initIndex, timeout, step, waitTime, nloops, timeoutHi, waitTimeHi>>
hist == <<rxMode, lastOp, result, wlog, pre, status, args, got>>
\* the objects' handles and the kernel resources behind them, maps apart
rsrc == <<dh, mem, life, fd, buf, blife, fds>>
env == <<sgIncluded, started, hw, nrx>>
vars == <<ctrl, bdmem, maps, incIndex, loopv, hist, env, rsrc>>

\* ------------------------------------------------------------ integer widths
U8(x) == x % 256
U16(x) == x % 65536
\* bit b of word w
Bit(w, b) == (w \div (2 ^ b)) % 2

\* ------------------------------------------------------------------- DMASR
\* the DMASR word with the given halted, idle, SG-included and IOC bits and
\* IRQ-threshold byte
Dmasr(h, i, sg, ioc, irq) ==
    (IF h THEN 1 ELSE 0) + (IF i THEN 2 ELSE 0) + (IF sg THEN 8 ELSE 0)
    + (IF ioc THEN 4096 ELSE 0) + irq * 65536

\* register-name -> offset tables of dmactrl.h
mm2sRegs ==
    [DMACR |-> 0, DMASR |-> 4, START_ADDRESS |-> 24, LENGTH |-> 40,
     CURDESC |-> 8, TAILDESC |-> 16]
s2mmRegs ==
    [DMACR |-> 48, DMASR |-> 52, DESTINATION_ADDRESS |-> 72, LENGTH |-> 88,
     CURDESC |-> 56, TAILDESC |-> 64]

\* regs[name]: std::map::operator[] yields 0 for a key the table lacks
Reg(t, name) ==
    LET tbl == IF t = "mm2s" THEN mm2sRegs ELSE s2mmRegs
    IN IF t # "none" /\ name \in DOMAIN tbl THEN tbl[name] ELSE 0

\* setRegister(offset, value): mem[offset>>2] = value, offset narrowed to uint8_t;
\* the write is appended to the log as <<byte offset of the word, value>>
setRegister(log, offset, value) == Append(log, <<4 * (U8(offset) \div 4), value>>)

\* isIdle / isSG / IRQioc: DMASR & mask, converted to bool
isIdle(sr) == Bit(sr, 1) # 0
isSG(sr) == Bit(sr, 3) # 0
IRQioc(sr) == Bit(sr, 12) # 0
\* isRunning: ~(DMASR & 0x0001) converted to bool. As a two's-complement
\* pattern ~v is -1 - v, which is zero only for v = 0xFFFFFFFF.
isRunning(sr) == (-1 - Bit(sr, 0)) # 0

\* ------------------------------------------------------ descriptor memory
\* setMem(mem_address, offset, value): mem_address[offset>>2] = value
setMem(m, offset, value) == [m EXCEPT ![offset \div 4] = value]
getMem(m, offset) == m[offset \div 4]

\* the clearing loop run to ndesc instead of DESC_SIZE*ndesc
ZeroLoop_short(m, n) ==
    [w \in DOMAIN m |-> IF w \in {i \div 4 : i \in 0..(n - 1)} THEN 0 ELSE m[w]]

\* for(i=0; i < DESC_SIZE*ndesc; i++) setMem(bdmem, i, 0): every i in
\* 0..DESC_SIZE*n-1 is used as a byte offset, so word i>>2 is cleared
ZeroLoop(m, n) ==
    LET written == {i \div 4 : i \in 0..(DESC_SIZE * n - 1)}
    IN [w \in DOMAIN m |-> IF w \in written THEN 0 ELSE m[w]]

\* body of the "Write descriptors arrays" loop for descriptor i
WriteDesc(m, i, base, tgt, s) ==
    LET m1 == setMem(m, NXTDESC + DESC_SIZE * i, base + NXTDESC + DESC_SIZE * (i + 1))
        m2 == setMem(m1, BUFFER_ADDRESS + DESC_SIZE * i, tgt + s * i)
    IN setMem(m2, CONTROL + DESC_SIZE * i, s)

RECURSIVE WriteLoop(_, _, _, _, _, _)
WriteLoop(m, i, n, base, tgt, s) ==
    IF i < n THEN WriteLoop(WriteDesc(m, i, base, tgt, s), i + 1, n, base, tgt, s)
    ELSE m

\* descriptor memory as initSGDescriptors leaves it, from mapped memory m
initSGDescriptors(m, n, base, tgt, s) ==
    LET z == ZeroLoop(m, n)
        w == WriteLoop(z, 0, n, base, tgt, s)
    IN setMem(w, NXTDESC + DESC_SIZE * (n - 1), 0)

\* BUFFER_ADDRESS with the batch index not scaled by the descriptor count
IncAddr_unscaled(tgt, s, n, desc, i) == tgt + s * (desc + i)

\* BUFFER_ADDRESS written by incSGDescTable(desc) for descriptor i
IncAddr(tgt, s, n, desc, i) == tgt + s * (n * desc + i)

\* for(uint8_t i=0; i<ndesc; i++) setMem(bdmem, BUFFER_ADDRESS + ..., ...)
RECURSIVE IncLoop(_, _, _, _, _, _)
IncLoop(m, i, n, tgt, s, desc) ==
    IF i < n
    THEN IncLoop(setMem(m, BUFFER_ADDRESS + DESC_SIZE * i, IncAddr(tgt, s, n, desc, i)),
                 U8(i + 1), n, tgt, s, desc)
    ELSE m

\* ------------------------------------------------------------------ state
NoPre == [bdStartIndex |-> 0, bdStopIndex |-> 0, lastIrqThreshold |-> 0]

Snapshot == [bdStartIndex |-> bdStartIndex, bdStopIndex |-> bdStopIndex,
             lastIrqThreshold |-> lastIrqThreshold]

\* the DMASR words a read may return: the engine sets the halted and idle bits
\* and the IRQ-threshold byte as it likes; the SG-included bit is fixed
DmasrValues ==
    {Dmasr(h, i, sgIncluded, FALSE, irq) : h \in BOOLEAN, i \in BOOLEAN, irq \in 0..MaxIrq}
\* words that differ in the halted bit only (reads that decode nothing else)
HaltedWords == {Dmasr(h, FALSE, sgIncluded, FALSE, 0) : h \in BOOLEAN}
\* words a poll may read: not idle with any IRQ-threshold byte, or idle (no
\* variant decodes the threshold byte of a word whose idle bit is set)
PollWords ==
    {Dmasr(FALSE, FALSE, sgIncluded, FALSE, irq) : irq \in 0..MaxIrq}
    \cup {Dmasr(FALSE, TRUE, sgIncluded, FALSE, 0)}
\* some word read from DMASR, for a read that decodes the SG-included bit only
AnyDmasr == CHOOSE sr \in DmasrValues : TRUE

\* DMACtrl::DMACtrl: the fields the constructor assigns; size, blockOffset,
\* blockSize and lastIrqThreshold, which can be read before they are assigned,
\* hold whatever the storage held; descaddr, targetaddr and ndesc are read
\* only after initSG has assigned them
Fields(cw) ==
    /\ channel = "UNKNOWN"
    /\ regs = "none"
    /\ sgIncluded \in BOOLEAN
    /\ bdmem = <<>>
    /\ \E g \in UninitWords :
          size = g /\ blockOffset = g /\ blockSize = g /\ lastIrqThreshold = g
    /\ descaddr = 0 /\ targetaddr = 0 /\ ndesc = 0
    /\ bdStartIndex = 0 /\ bdStopIndex = 0
    /\ curWait = cw
    /\ initsg = FALSE /\ blockTransfer = FALSE /\ bufferTransfer = FALSE
    /\ pc = "ready" /\ initIndex = 0
    /\ timeout = 0 /\ step = 0 /\ waitTime = 0 /\ nloops = 0
    /\ timeoutHi = 0 /\ waitTimeHi = 0
    /\ rxMode = "none" /\ lastOp = "new" /\ result = "ok"
    /\ wlog = <<>> /\ pre = NoPre /\ status = 0
    /\ incIndex = 0
    /\ args = <<>> /\ started = FALSE /\ nrx = 0 /\ got = <<>>
    /\ hw = [irq |-> 0, idle |-> FALSE]
    /\ life = "live"

\* curWait = (maxWait - minWait) / 2
Construct == Fields((maxWait - minWait) \div 2)

\* dh = open("/dev/mem", O_RDWR | O_SYNC); mem = mmap(..., dh, baseaddr): neither
\* result is tested; opened and mapped say whether the system calls succeeded
Acquire(opened, mapped) ==
    /\ dh = (IF opened THEN 3 ELSE -1)
    /\ mem = (IF opened /\ mapped THEN "mapped" ELSE "failed")
    /\ fds = [devmem |-> IF opened THEN 1 ELSE 0, udmabuf |-> 0]
    /\ maps = [regs |-> IF opened /\ mapped THEN 1 ELSE 0, bd |-> 0, buf |-> 0]

\* DMABuffer::DMABuffer: fd = -1, buf is not assigned
DMABuffer ==
    /\ fd = -1 /\ buf = "unset" /\ blife = "live"

\* a controller whose constructor found /dev/mem and mapped the register
\* window, and a buffer object not yet opened
Init == Construct /\ Acquire(TRUE, TRUE) /\ DMABuffer

\* a call that is not rx has ended: outcome, register writes, descriptor
\* word read for the caller
Ended(op, a, res, log, g) ==
    /\ lastOp' = op /\ args' = a /\ result' = res /\ wlog' = log /\ got' = g
    /\ rxMode' = "none" /\ pre' = NoPre /\ status' = 0
    /\ timeout' = 0 /\ timeoutHi' = 0
    /\ UNCHANGED <<initIndex, step, waitTime, waitTimeHi, nloops, sgIncluded, nrx>>

\* such a call, returning to the caller with the objects' handles as they were
Done(op, a, res, log) ==
    /\ Ended(op, a, res, log, <<>>)
    /\ UNCHANGED <<pc, rsrc>>

\* the process is killed by a signal in the middle of a call: nothing runs
\* afterwards, and the kernel closes its descriptors and removes its mappings
Crash(op, a) ==
    /\ Ended(op, a, SIGSEGV, <<>>, <<>>)
    /\ pc' = "crashed"
    /\ fds' = [devmem |-> 0, udmabuf |-> 0]
    /\ maps' = [regs |-> 0, bd |-> 0, buf |-> 0]
    /\ UNCHANGED <<ctrl, bdmem, incIndex, started, hw, dh, mem, life, fd, buf, blife>>

\* a call that throws before it wrote anything
Throw(op, a, err) ==
    /\ Done(op, a, err, <<>>)
    /\ UNCHANGED <<ctrl, bdmem, maps, incIndex, started, hw>>

\* DMACtrl::setChannel
setChannel(ch) ==
    /\ pc = "ready"
    /\ channel' = ch
    /\ regs' = IF ch = "MM2S" THEN "mm2s" ELSE IF ch = "S2MM" THEN "s2mm" ELSE regs
    /\ Done("setChannel", <<ch>>, "ok", <<>>)
    /\ UNCHANGED <<size, descaddr, targetaddr, ndesc, blockOffset, blockSize,
                   bdStartIndex, bdStopIndex, curWait, lastIrqThreshold, initsg,
                   blockTransfer, bufferTransfer, bdmem, maps, incIndex, started, hw>>

\* halt without the channel check
halt_unguarded ==
    /\ pc = "ready"
    /\ Done("halt", <<>>, "ok", setRegister(<<>>, Reg(regs, "DMACR"), 0))
    /\ UNCHANGED <<ctrl, bdmem, maps, incIndex, started, hw>>

\* DMACtrl::halt
halt ==
    /\ pc = "ready"
    /\ IF channel = "UNKNOWN" THEN Throw("halt", <<>>, E_CHANNEL)
       ELSE /\ Done("halt", <<>>, "ok", setRegister(<<>>, Reg(regs, "DMACR"), 0))
            /\ UNCHANGED <<ctrl, bdmem, maps, incIndex, started, hw>>

\* DMACtrl::reset
reset ==
    /\ pc = "ready"
    /\ IF channel = "UNKNOWN" THEN Throw("reset", <<>>, E_CHANNEL)
       ELSE /\ Done("reset", <<>>, "ok", setRegister(<<>>, Reg(regs, "DMACR"), 4))
            /\ UNCHANGED <<ctrl, bdmem, maps, incIndex, started, hw>>

\* register writes of initDirect for the selected channel
InitDirectWrites(ch, t, addr) ==
    LET areg == IF ch = "S2MM" THEN "DESTINATION_ADDRESS" ELSE "START_ADDRESS"
    IN setRegister(setRegister(<<>>, Reg(t, areg), addr), Reg(t, "DMACR"), 61441)

\* DMACtrl::initDirect
initDirect(blocksize, addr) ==
    /\ pc = "ready"
    /\ IF channel = "UNKNOWN" THEN Throw("initDirect", <<blocksize, addr>>, E_CHANNEL)
       ELSE IF isSG(AnyDmasr) THEN Throw("initDirect", <<blocksize, addr>>, E_NOTDIRECT)
       ELSE /\ size' = blocksize
            /\ Done("initDirect", <<blocksize, addr>>, "ok",
                    InitDirectWrites(channel, regs, addr))
            /\ UNCHANGED <<channel, regs, descaddr, targetaddr, ndesc, blockOffset,
                           blockSize, bdStartIndex, bdStopIndex, curWait,
                           lastIrqThreshold, initsg, blockTransfer, bufferTransfer,
                           bdmem, maps, incIndex, started, hw>>

\* DMACtrl::initSG with DMACtrl::initSGDescriptors
initSG(baseaddr, n, blocksize, tgtaddr) ==
    /\ pc = "ready"
    /\ IF channel = "UNKNOWN" THEN Throw("initSG", <<baseaddr, n, blocksize, tgtaddr>>, E_CHANNEL)
       ELSE IF ~isSG(AnyDmasr) THEN Throw("initSG", <<baseaddr, n, blocksize, tgtaddr>>, E_NOTSG)
       ELSE /\ \E j \in JunkWords :
                 bdmem' = initSGDescriptors([w \in 0..(16 * n - 1) |-> j], n,
                                            baseaddr, tgtaddr, blocksize)
            /\ descaddr' = baseaddr /\ targetaddr' = tgtaddr
            /\ size' = blocksize /\ ndesc' = n
            /\ initsg' = TRUE
            /\ incIndex' = 0
            /\ maps' = [maps EXCEPT !.bd = IF @ < MaxBdMaps THEN @ + 1 ELSE @]
            /\ Done("initSG", <<baseaddr, n, blocksize, tgtaddr>>, "ok",
                    setRegister(<<>>, Reg(regs, "CURDESC"), baseaddr))
            /\ UNCHANGED <<channel, regs, blockOffset, blockSize, bdStartIndex,
                           bdStopIndex, curWait, lastIrqThreshold, blockTransfer,
                           bufferTransfer, started, hw>>

\* the statements of initSGDescriptors with CURDESC written ahead of the
\* terminating NXTDESC
After_early(p) ==
    CASE p = "zero" -> "write" [] p = "write" -> "curdesc" [] p = "curdesc" -> "term"
      [] p = "term" -> "flag" [] p = "flag" -> "ready"

\* the statement of initSGDescriptors that follows statement p: the clearing
\* loop, the writing loop, NXTDESC of the last descriptor, CURDESC, initsg
After(p) ==
    CASE p = "zero" -> "write" [] p = "write" -> "term" [] p = "term" -> "curdesc"
      [] p = "curdesc" -> "flag" [] p = "flag" -> "ready"

\* a statement of a stepwise initSG leaves the call in progress
InitStep ==
    /\ UNCHANGED <<channel, regs, size, descaddr, targetaddr, ndesc, blockOffset,
                   blockSize, bdStartIndex, bdStopIndex, curWait, lastIrqThreshold,
                   blockTransfer, bufferTransfer>>
    /\ UNCHANGED <<maps, incIndex, timeout, step, waitTime, nloops, timeoutHi, waitTimeHi>>
    /\ UNCHANGED <<rxMode, lastOp, pre, status, args, got, env, rsrc>>

\* DMACtrl::initSG up to its call of initSGDescriptors
initSGBegin(baseaddr, n, blocksize, tgtaddr) ==
    /\ pc = "ready"
    /\ IF channel = "UNKNOWN" THEN Throw("initSG", <<baseaddr, n, blocksize, tgtaddr>>, E_CHANNEL)
       ELSE IF ~isSG(AnyDmasr) THEN Throw("initSG", <<baseaddr, n, blocksize, tgtaddr>>, E_NOTSG)
       ELSE /\ \E j \in JunkWords : bdmem' = [w \in 0..(16 * n - 1) |-> j]
            /\ descaddr' = baseaddr /\ targetaddr' = tgtaddr
            /\ size' = blocksize /\ ndesc' = n
            /\ incIndex' = 0
            /\ maps' = [maps EXCEPT !.bd = IF @ < MaxBdMaps THEN @ + 1 ELSE @]
            /\ Ended("initSG", <<baseaddr, n, blocksize, tgtaddr>>, "pending", <<>>, <<>>)
            /\ pc' = "zero"
            /\ UNCHANGED <<channel, regs, blockOffset, blockSize, bdStartIndex,
                           bdStopIndex, curWait, lastIrqThreshold, initsg, blockTransfer,
                           bufferTransfer, started, hw, rsrc>>

\* for(i=0; i < (DESC_SIZE * ndesc); i++) setMem(bdmem, i, 0): the loop test
\* and, where it passes, one iteration
initSGZero ==
    /\ pc = "zero"
    /\ IF initIndex < DESC_SIZE * ndesc
       THEN /\ bdmem' = setMem(bdmem, initIndex, 0)
            /\ initIndex' = initIndex + 1
            /\ UNCHANGED pc
       ELSE /\ pc' = After(pc) /\ initIndex' = 0
            /\ UNCHANGED bdmem
    /\ UNCHANGED <<initsg, wlog, result>>
    /\ InitStep

\* for(i=0; i<ndesc; i++) { setMem NXTDESC, BUFFER_ADDRESS, CONTROL }: the loop
\* test and, where it passes, one iteration
initSGWrite ==
    /\ pc = "write"
    /\ IF initIndex < ndesc
       THEN /\ bdmem' = WriteDesc(bdmem, initIndex, descaddr, targetaddr, size)
            /\ initIndex' = initIndex + 1
            /\ UNCHANGED pc
       ELSE /\ pc' = After(pc)
            /\ UNCHANGED <<bdmem, initIndex>>
    /\ UNCHANGED <<initsg, wlog, result>>
    /\ InitStep

\* setMem(bdmem, NXTDESC + (DESC_SIZE * (ndesc-1)), 0)
initSGTerm ==
    /\ pc = "term"
    /\ bdmem' = setMem(bdmem, NXTDESC + DESC_SIZE * (ndesc - 1), 0)
    /\ pc' = After(pc)
    /\ UNCHANGED <<initsg, wlog, result, initIndex>>
    /\ InitStep

\* setRegister(regs["CURDESC"], descaddr)
initSGCurdesc ==
    /\ pc = "curdesc"
    /\ wlog' = setRegister(wlog, Reg(regs, "CURDESC"), descaddr)
    /\ pc' = After(pc)
    /\ UNCHANGED <<initsg, bdmem, result, initIndex>>
    /\ InitStep

\* initsg = true, and the return of initSG
initSGFlag ==
    /\ pc = "flag"
    /\ initsg' = TRUE
    /\ pc' = After(pc) /\ result' = "ok" /\ initIndex' = 0
    /\ UNCHANGED <<bdmem, wlog>>
    /\ InitStep

\* the register writes of runSG with TAILDESC written before DMACR
RunSGWrites_swapped(t, n, base) ==
    LET w1 == setRegister(<<>>, Reg(t, "TAILDESC"), base + DESC_SIZE * (n - 1))
    IN setRegister(w1, Reg(t, "DMACR"), n * 65536 + 4113)

\* register writes of runSG, in program order
RunSGWrites(t, n, base) ==
    LET w1 == setRegister(<<>>, Reg(t, "DMACR"), n * 65536 + 4113)
    IN setRegister(w1, Reg(t, "TAILDESC"), base + DESC_SIZE * (n - 1))

\* runSG without the reset of the two transfer flags
runSG_keepflags ==
    IF ~initsg THEN Throw("run", <<>>, E_NOINIT)
    ELSE /\ blockOffset' = 0 /\ blockSize' = 0
         /\ bdStartIndex' = 0 /\ bdStopIndex' = 0
         /\ lastIrqThreshold' = ndesc
         /\ Done("run", <<>>, "ok", RunSGWrites(regs, ndesc, descaddr))
         /\ started' = TRUE /\ hw' = [irq |-> ndesc, idle |-> FALSE]
         /\ UNCHANGED <<channel, regs, size, descaddr, targetaddr, ndesc, curWait,
                        initsg, bdmem, maps, incIndex, blockTransfer,
                        bufferTransfer>>

\* DMACtrl::runSG
runSG ==
    IF ~initsg THEN Throw("run", <<>>, E_NOINIT)
    ELSE /\ blockOffset' = 0 /\ blockSize' = 0
         /\ bdStartIndex' = 0 /\ bdStopIndex' = 0
         /\ lastIrqThreshold' = ndesc
         /\ blockTransfer' = FALSE /\ bufferTransfer' = FALSE
         /\ Done("run", <<>>, "ok", RunSGWrites(regs, ndesc, descaddr))
         /\ started' = TRUE /\ hw' = [irq |-> ndesc, idle |-> FALSE]
         /\ UNCHANGED <<channel, regs, size, descaddr, targetaddr, ndesc, curWait,
                        initsg, bdmem, maps, incIndex>>

\* DMACtrl::runDirect
runDirect ==
    IF channel = "UNKNOWN" THEN Throw("run", <<>>, E_CHANNEL)
    ELSE IF isSG(AnyDmasr) THEN Throw("run", <<>>, E_NOTDIRECT)
    ELSE /\ Done("run", <<>>, "ok", setRegister(<<>>, Reg(regs, "LENGTH"), size))
         /\ hw' = [irq |-> 0, idle |-> FALSE]
         /\ UNCHANGED <<ctrl, bdmem, maps, incIndex, started>>

\* DMACtrl::run
run ==
    /\ pc = "ready"
    /\ IF channel = "UNKNOWN" THEN Throw("run", <<>>, E_CHANNEL)
       ELSE IF isSG(AnyDmasr) THEN runSG ELSE runDirect

\* DMACtrl::incSGDescTable, desc narrowed to uint8_t
incSGDescTable(desc) ==
    /\ pc = "ready"
    /\ IF ~initsg THEN Throw("incSGDescTable", <<desc>>, E_NOINIT)
       ELSE /\ bdmem' = IncLoop(bdmem, 0, ndesc, targetaddr, size, U8(desc))
            /\ incIndex' = U8(desc)
            /\ Done("incSGDescTable", <<desc>>, "ok", <<>>)
            /\ UNCHANGED <<ctrl, maps, started, hw>>

\* for(uint8_t i=0; i<ndesc; i++) setMem(bdmem, STATUS + (DESC_SIZE * i), 0)
RECURSIVE ClearLoop(_, _, _)
ClearLoop(m, i, n) ==
    IF i < n THEN ClearLoop(setMem(m, STATUS + DESC_SIZE * i, 0), U8(i + 1), n)
    ELSE m

\* DMACtrl::clearSGDescAllStatus
clearSGDescAllStatus ==
    /\ pc = "ready"
    /\ IF ~initsg THEN Throw("clearSGDescAllStatus", <<>>, E_NOINIT)
       ELSE /\ bdmem' = ClearLoop(bdmem, 0, ndesc)
            /\ Done("clearSGDescAllStatus", <<>>, "ok", <<>>)
            /\ UNCHANGED <<ctrl, maps, incIndex, started, hw>>

\* dumpSGDescTable: throws unless initsg, otherwise reads the four words of
\* every descriptor and prints them
dumpSGDescTable ==
    /\ pc = "ready"
    /\ IF ~initsg THEN Throw("dumpSGDescTable", <<>>, E_NOINIT)
       ELSE /\ Done("dumpSGDescTable", <<>>, "ok", <<>>)
            /\ UNCHANGED <<ctrl, bdmem, maps, incIndex, started, hw>>

\* dumpSGDescAllStatus: throws unless initsg, otherwise reads STATUS of every
\* descriptor and prints it
dumpSGDescAllStatus ==
    /\ pc = "ready"
    /\ IF ~initsg THEN Throw("dumpSGDescAllStatus", <<>>, E_NOINIT)
       ELSE /\ Done("dumpSGDescAllStatus", <<>>, "ok", <<>>)
            /\ UNCHANGED <<ctrl, bdmem, maps, incIndex, started, hw>>

\* getSGDescBufferAddress(desc): throws unless initsg, otherwise returns
\* getMem(bdmem, BUFFER_ADDRESS + DESC_SIZE * desc) with desc a uint8_t and
\* no test of desc against ndesc. A word inside the array is read as it is; a
\* read past the array yields whatever lies behind it, or faults
getSGDescBufferAddress(desc) ==
    /\ pc = "ready"
    /\ IF ~initsg THEN Throw("getSGDescBufferAddress", <<desc>>, E_NOINIT)
       ELSE LET w == (BUFFER_ADDRESS + DESC_SIZE * U8(desc)) \div 4
            IN IF w \in DOMAIN bdmem
               THEN /\ Ended("getSGDescBufferAddress", <<desc>>, "ok", <<>>,
                             <<w, getMem(bdmem, BUFFER_ADDRESS + DESC_SIZE * U8(desc))>>)
                    /\ UNCHANGED <<ctrl, bdmem, maps, incIndex, started, hw, pc, rsrc>>
               ELSE \/ \E j \in JunkWords :
                         /\ Ended("getSGDescBufferAddress", <<desc>>, "ok", <<>>, <<w, j>>)
                         /\ UNCHANGED <<ctrl, bdmem, maps, incIndex, started, hw, pc, rsrc>>
                    \/ Crash("getSGDescBufferAddress", <<desc>>)

\* the engine fills descriptor i and writes its STATUS word
engineStatus(i) ==
    /\ pc = "ready" /\ initsg /\ i < ndesc
    /\ \E w \in StatusWords : bdmem' = setMem(bdmem, STATUS + DESC_SIZE * i, w)
    /\ Done("engine", <<i>>, "ok", <<>>)
    /\ UNCHANGED <<ctrl, maps, incIndex, started, hw>>

\* ------------------------------------------------- descriptors and mappings
\* DMACtrl::~DMACtrl: munmap(mem, AXI_DMA_DEPTH) and nothing else; munmap of
\* MAP_FAILED fails and removes nothing
DMACtrl_destroy ==
    /\ pc = "ready" /\ life = "live"
    /\ life' = "destroyed"
    /\ mem' = (IF mem = "mapped" THEN "unmapped" ELSE mem)
    /\ maps' = (IF mem = "mapped" THEN [maps EXCEPT !.regs = @ - 1] ELSE maps)
    /\ Ended("~DMACtrl", <<>>, "ok", <<>>, <<>>)
    /\ UNCHANGED <<pc, ctrl, bdmem, incIndex, started, hw, dh, fd, buf, blife, fds>>

\* the calls that reach getRegister or setRegister once the channel is set
RegisterOps == {"halt", "reset", "run", "isIdle", "isRunning", "isSG", "getStatus",
                "IRQioc", "clearIRQioc", "initDirect", "initSG", "rx"}

\* mem[offset>>2] with mem == MAP_FAILED: the access is undefined; where the
\* address is not mapped the process is killed inside the call, otherwise the
\* call goes on with whatever the access hit
segfault ==
    /\ pc = "ready" /\ life = "live" /\ mem = "failed" /\ channel # "UNKNOWN"
    /\ \E op \in RegisterOps : Crash(op, <<>>)

\* the descriptor number the next successful ::open returns
NewFd == 3 + fds.devmem + fds.udmabuf

\* the step of DMABuffer::open that fails: the sysfs directory is missing,
\* phys_addr or size cannot be opened, /dev/<name> cannot be opened, mmap
\* fails, or none
OpenSteps == {"sysfs", "phys_addr", "size", "dev", "mmap", "none"}

\* DMABuffer::open(bufname, cache_on) when step f fails: the first three
\* failures return false before fd is touched; a failed ::open stores -1 in fd
\* and returns false; the result of mmap is stored in buf untested and the
\* call returns true. A descriptor or mapping the object held before the call
\* is overwritten, not released
DMABuffer_open(f) ==
    /\ pc = "ready" /\ blife = "live"
    /\ fds.udmabuf < MaxOpens /\ maps.buf < MaxOpens
    /\ IF f \in {"sysfs", "phys_addr", "size"}
       THEN /\ Ended("open", <<f>>, "false", <<>>, <<>>)
            /\ UNCHANGED <<fd, buf, fds, maps>>
       ELSE IF f = "dev"
       THEN /\ fd' = -1
            /\ Ended("open", <<f>>, "false", <<>>, <<>>)
            /\ UNCHANGED <<buf, fds, maps>>
       ELSE /\ fd' = NewFd
            /\ fds' = [fds EXCEPT !.udmabuf = @ + 1]
            /\ buf' = (IF f = "mmap" THEN "failed" ELSE "mapped")
            /\ maps' = (IF f = "mmap" THEN maps ELSE [maps EXCEPT !.buf = @ + 1])
            /\ Ended("open", <<f>>, "true", <<>>, <<>>)
    /\ UNCHANGED <<pc, ctrl, bdmem, incIndex, started, hw, dh, mem, life, blife>>

\* what DMABuffer::close does to the object and the process: nothing when
\* fd < 0, otherwise ::close(fd); fd = -1; buf is left alone
CloseFd ==
    IF fd < 0 THEN UNCHANGED <<fd, fds>>
    ELSE fd' = -1 /\ fds' = [fds EXCEPT !.udmabuf = @ - 1]

\* DMABuffer::close
DMABuffer_close ==
    /\ pc = "ready" /\ blife = "live"
    /\ CloseFd
    /\ Ended("close", <<>>, IF fd < 0 THEN "false" ELSE "true", <<>>, <<>>)
    /\ UNCHANGED <<pc, ctrl, bdmem, incIndex, started, hw, dh, mem, life, buf, blife, maps>>

\* DMABuffer::~DMABuffer: if(fd != -1) close()
DMABuffer_destroy ==
    /\ pc = "ready" /\ blife = "live"
    /\ blife' = "destroyed"
    /\ CloseFd
    /\ Ended("~DMABuffer", <<>>, "ok", <<>>, <<>>)
    /\ UNCHANGED <<pc, ctrl, bdmem, incIndex, started, hw, dh, mem, life, buf, maps>>

\* the DMASR words a status query may read
ApiWords == {Dmasr(h, i, sgIncluded, ioc, 0) : h \in BOOLEAN, i \in BOOLEAN, ioc \in BOOLEAN}

\* a query that returns the bool b
Answer(op, b) ==
    /\ Done(op, <<>>, IF b THEN "true" ELSE "false", <<>>)
    /\ UNCHANGED <<ctrl, bdmem, maps, incIndex, started, hw>>

\* DMACtrl::isIdle, DMACtrl::isRunning, DMACtrl::isSG and DMACtrl::IRQioc as calls
isIdleCall ==
    /\ pc = "ready"
    /\ IF channel = "UNKNOWN" THEN Throw("isIdle", <<>>, E_CHANNEL)
       ELSE \E sr \in ApiWords : Answer("isIdle", isIdle(sr))

isRunningCall ==
    /\ pc = "ready"
    /\ IF channel = "UNKNOWN" THEN Throw("isRunning", <<>>, E_CHANNEL)
       ELSE \E sr \in ApiWords : Answer("isRunning", isRunning(sr))

isSGCall ==
    /\ pc = "ready"
    /\ IF channel = "UNKNOWN" THEN Throw("isSG", <<>>, E_CHANNEL)
       ELSE \E sr \in ApiWords : Answer("isSG", isSG(sr))

IRQiocCall ==
    /\ pc = "ready"
    /\ IF channel = "UNKNOWN" THEN Throw("IRQioc", <<>>, E_CHANNEL)
       ELSE \E sr \in ApiWords : Answer("IRQioc", IRQioc(sr))

\* DMACtrl::getStatus: reads DMASR and prints it
getStatus ==
    /\ pc = "ready"
    /\ IF channel = "UNKNOWN" THEN Throw("getStatus", <<>>, E_CHANNEL)
       ELSE /\ Done("getStatus", <<>>, "ok", <<>>)
            /\ UNCHANGED <<ctrl, bdmem, maps, incIndex, started, hw>>

\* DMACtrl::clearIRQioc: DMASR = status & ~(1<<12)
clearIRQioc ==
    /\ pc = "ready"
    /\ IF channel = "UNKNOWN" THEN Throw("clearIRQioc", <<>>, E_CHANNEL)
       ELSE \E sr \in ApiWords :
              /\ Done("clearIRQioc", <<>>, "ok",
                      setRegister(<<>>, Reg(regs, "DMASR"), sr - 4096 * Bit(sr, 12)))
              /\ UNCHANGED <<ctrl, bdmem, maps, incIndex, started, hw>>

\* calibrateWaitTime with the lower clamp left out
calibrateWaitTime_noclamp(cw, count) ==
    IF count > maxLoop THEN (IF cw * 2 > maxWait THEN maxWait ELSE cw * 2)
    ELSE IF count < minLoop THEN cw \div 2
    ELSE cw

\* calibrateWaitTime doubling from maxLoop on instead of above it
calibrateWaitTime_early(cw, count) ==
    IF count >= maxLoop THEN (IF cw * 2 > maxWait THEN maxWait ELSE cw * 2)
    ELSE IF count < minLoop THEN (IF cw \div 2 < minWait THEN minWait ELSE cw \div 2)
    ELSE cw

\* DMACtrl::calibrateWaitTime(count): the new curWait
calibrateWaitTime(cw, count) ==
    IF count > maxLoop THEN (IF cw * 2 > maxWait THEN maxWait ELSE cw * 2)
    ELSE IF count < minLoop THEN (IF cw \div 2 < minWait THEN minWait ELSE cw \div 2)
    ELSE cw

\* the iteration counts calibrateWaitTime is given: both sides of minLoop and
\* maxLoop, and the ends of uint16_t
CalCounts == {0, 2, minLoop - 1, minLoop, maxLoop, maxLoop + 1, 20, 65535}

\* the curWait values calibrateWaitTime is applied to
CalWaits == minWait..maxWait

\* one call of calibrateWaitTime(count) on the object, as directRx, blockRx
\* and bufferRx make it with their iteration count
calibrateCall(count) ==
    /\ pc = "ready"
    /\ curWait' = calibrateWaitTime(curWait, U16(count))
    /\ Done("calibrateWaitTime", <<curWait, count>>, "ok", <<>>)
    /\ UNCHANGED <<channel, regs, size, descaddr, targetaddr, ndesc, blockOffset,
                   blockSize, bdStartIndex, bdStopIndex, lastIrqThreshold, initsg,
                   blockTransfer, bufferTransfer, bdmem, maps, incIndex, started, hw>>

\* rx with the curWait test inverted
RxVariant_inverted(sr, bt, buft, cw) ==
    IF ~isSG(sr) THEN "direct"
    ELSE IF bt THEN "block"
    ELSE IF buft THEN "buffer"
    ELSE IF cw = maxWait THEN "buffer"
    ELSE "block"

\* rx that chooses by curWait alone and never resumes by a transfer flag
RxVariant_noresume(sr, bt, buft, cw) ==
    IF ~isSG(sr) THEN "direct"
    ELSE IF cw = maxWait THEN "block"
    ELSE "buffer"

\* DMACtrl::rx: the variant the call is handed to, from the DMASR word read
\* by isSG(), the two transfer flags and curWait
RxVariant(sr, bt, buft, cw) ==
    IF ~isSG(sr) THEN "direct"
    ELSE IF bt THEN "block"
    ELSE IF buft THEN "buffer"
    ELSE IF cw = maxWait THEN "block"
    ELSE "buffer"

\* the precondition checks without the initsg test of blockRx and bufferRx
RxPrecondition_noinit(v, sr) ==
    IF v = "direct"
    THEN IF isSG(sr) THEN E_NOTDIRECT
         ELSE IF channel # "S2MM" THEN E_NOTS2MM
         ELSE IF ~isRunning(sr) THEN E_NOTRUNNING
         ELSE "ok"
    ELSE IF channel # "S2MM" THEN E_NOTS2MM
         ELSE IF ~isRunning(sr) THEN E_NOTRUNNING
         ELSE "ok"

\* the precondition checks that open directRx, blockRx and bufferRx: the
\* error thrown, or "ok"
RxPrecondition(v, sr) ==
    IF v = "direct"
    THEN IF isSG(sr) THEN E_NOTDIRECT
         ELSE IF channel # "S2MM" THEN E_NOTS2MM
         ELSE IF ~isRunning(sr) THEN E_NOTRUNNING
         ELSE "ok"
    ELSE IF ~initsg THEN E_NOINIT
         ELSE IF channel # "S2MM" THEN E_NOTS2MM
         ELSE IF ~isRunning(sr) THEN E_NOTRUNNING
         ELSE "ok"

\* the sleep step taken from curWait whatever the timeout
SleepStep_curwait(t, cw) == cw

\* if(timeout == 0) step = curWait; else step = minWait;
SleepStep(t, cw) == IF t = 0 THEN cw ELSE minWait

\* DMACtrl::rx up to the first iteration of the polling loop of its variant,
\* the timeout given as its bits 31..30 (th) and its bits 29..0 (t); th + t is
\* zero exactly when the timeout is
rx32(th, t) ==
    /\ pc = "ready"
    /\ lastOp' = "rx" /\ args' = (IF th = 0 THEN <<t>> ELSE <<th, t>>)
    /\ wlog' = <<>> /\ got' = <<>>
    /\ timeoutHi' = th
    /\ pre' = Snapshot
    /\ nrx' = (IF nrx < 2 THEN nrx + 1 ELSE nrx)
    /\ UNCHANGED <<sgIncluded, started, hw, bdmem, maps, incIndex, rsrc>>
    /\ IF channel = "UNKNOWN"
       THEN /\ result' = E_CHANNEL /\ rxMode' = "none" /\ timeout' = t
            /\ status' = 0
            /\ UNCHANGED <<ctrl, pc, initIndex, step, waitTime, waitTimeHi, nloops>>
       ELSE \E sr \in HaltedWords :
            LET v == RxVariant(sr, blockTransfer, bufferTransfer, curWait)
                e == RxPrecondition(v, sr)
            IN /\ rxMode' = v /\ timeout' = t /\ status' = sr
               /\ IF e # "ok"
                  THEN /\ result' = e
                       /\ UNCHANGED <<ctrl, pc, initIndex, step, waitTime, waitTimeHi, nloops>>
                  ELSE /\ result' = "pending"
                       /\ pc' = "poll"
                       /\ step' = SleepStep(th + t, curWait)
                       /\ waitTime' = 0 /\ waitTimeHi' = 0 /\ nloops' = 0
                       /\ UNCHANGED initIndex
                       /\ blockTransfer' = (IF v = "block" THEN TRUE ELSE blockTransfer)
                       /\ bufferTransfer' = (IF v = "buffer" THEN TRUE ELSE bufferTransfer)
                       /\ UNCHANGED <<channel, regs, size, descaddr, targetaddr, ndesc,
                                      blockOffset, blockSize, bdStartIndex, bdStopIndex,
                                      curWait, lastIrqThreshold, initsg>>

\* DMACtrl::rx with a timeout below 2^30
rx(t) == rx32(0, t)

\* the rx in progress returns r (or throws r) having read DMASR word sr
Return(r, sr) ==
    /\ pc' = "ready" /\ result' = r /\ status' = sr
    /\ step' = 0 /\ waitTime' = 0 /\ waitTimeHi' = 0 /\ nloops' = 0
    /\ UNCHANGED <<initIndex, timeout, timeoutHi, rxMode, lastOp, wlog, pre, args, got, env, bdmem, maps,
                   incIndex, rsrc>>

\* 2^30: a uint32_t is kept as its bits 31..30 and its bits 29..0
Part == 1073741824

\* a < b for two uint32_t values given in their two parts
Lt32(ah, al, bh, bl) == ah < bh \/ (ah = bh /\ al < bl)

\* timeout == 0
Infinite == timeout = 0 /\ timeoutHi = 0

\* the while condition with the timeout == 0 disjunct left out
LoopTest_finite(wh, wl) == Lt32(wh, wl, timeoutHi, timeout)

\* while ( (waitTime < timeout) || (timeout == 0) ), waitTime given in its two
\* parts
LoopTest(wh, wl) == Lt32(wh, wl, timeoutHi, timeout) \/ Infinite

\* tail of a loop iteration that saw no completion: usleep(step),
\* waitTime += step, nloops++ (uint16_t), then the while condition
Sleep(sr) ==
    LET wt == waitTime + step
        wl == wt % Part
        wh == (waitTimeHi + wt \div Part) % 4
    IN /\ (Infinite => nloops < MaxPolls)
       /\ IF LoopTest(wh, wl)
          THEN /\ waitTime' = wl /\ waitTimeHi' = wh /\ nloops' = U16(nloops + 1)
               /\ UNCHANGED <<pc, initIndex, timeout, timeoutHi, step, bdmem, maps, incIndex,
                              hist,
                              env, rsrc>>
          ELSE Return("false", sr)

\* k iterations of the polling loop in a row, none of which sees a completion,
\* taken at once: waitTime grows by k * step and nloops by k. The step is
\* taken only where each of the k loop tests passes: the sum stays below the
\* timeout and below 2^32
fastForward(k) ==
    LET wt == waitTime + k * step
        wl == wt % Part
        wh == waitTimeHi + wt \div Part
    IN /\ pc = "poll" /\ ~Infinite
       /\ wh < 4 /\ Lt32(wh, wl, timeoutHi, timeout)
       /\ waitTime' = wl /\ waitTimeHi' = wh /\ nloops' = U16(nloops + k)
       /\ UNCHANGED <<ctrl, pc, initIndex, timeout, timeoutHi, step, bdmem, maps, incIndex,
                      hist,
                      env, rsrc>>

\* directRx that leaves blockSize as it was on completion
directRx_nosize ==
    /\ pc = "poll" /\ rxMode = "direct"
    /\ \E sr \in PollWords :
         IF isIdle(sr)
         THEN /\ curWait' = (IF Infinite THEN calibrateWaitTime(curWait, nloops)
                             ELSE curWait)
              /\ blockOffset' = 0 /\ blockSize' = blockSize
              /\ Return("true", sr)
              /\ UNCHANGED <<channel, regs, size, descaddr, targetaddr, ndesc,
                             bdStartIndex, bdStopIndex, lastIrqThreshold, initsg,
                             blockTransfer, bufferTransfer>>
         ELSE Sleep(sr) /\ UNCHANGED ctrl

\* one iteration of the do-while loop of directRx, DMASR reading as one of
\* words
directRxOn(words) ==
    /\ pc = "poll" /\ rxMode = "direct"
    /\ \E sr \in words :
         IF isIdle(sr)
         THEN /\ curWait' = (IF Infinite THEN calibrateWaitTime(curWait, nloops)
                             ELSE curWait)
              /\ blockOffset' = 0 /\ blockSize' = size
              /\ Return("true", sr)
              /\ UNCHANGED <<channel, regs, size, descaddr, targetaddr, ndesc,
                             bdStartIndex, bdStopIndex, lastIrqThreshold, initsg,
                             blockTransfer, bufferTransfer>>
         ELSE Sleep(sr) /\ UNCHANGED ctrl

\* one iteration of the do-while loop of directRx, the engine unconstrained
directRx == directRxOn(PollWords)

\* bufferRx that reports one descriptor's worth of data on completion
bufferRx_oneblock ==
    /\ pc = "poll" /\ rxMode = "buffer"
    /\ \E sr \in PollWords :
         IF isIdle(sr)
         THEN /\ curWait' = (IF Infinite THEN calibrateWaitTime(curWait, nloops)
                             ELSE curWait)
              /\ blockOffset' = 0 /\ blockSize' = size
              /\ bufferTransfer' = FALSE
              /\ Return("true", sr)
              /\ UNCHANGED <<channel, regs, size, descaddr, targetaddr, ndesc,
                             bdStartIndex, bdStopIndex, lastIrqThreshold, initsg,
                             blockTransfer>>
         ELSE Sleep(sr) /\ UNCHANGED ctrl

\* one iteration of the do-while loop of bufferRx, DMASR reading as one of
\* words
bufferRxOn(words) ==
    /\ pc = "poll" /\ rxMode = "buffer"
    /\ \E sr \in words :
         IF isIdle(sr)
         THEN /\ curWait' = (IF Infinite THEN calibrateWaitTime(curWait, nloops)
                             ELSE curWait)
              /\ blockOffset' = 0 /\ blockSize' = size * ndesc
              /\ bufferTransfer' = FALSE
              /\ Return("true", sr)
              /\ UNCHANGED <<channel, regs, size, descaddr, targetaddr, ndesc,
                             bdStartIndex, bdStopIndex, lastIrqThreshold, initsg,
                             blockTransfer>>
         ELSE Sleep(sr) /\ UNCHANGED ctrl

\* one iteration of the do-while loop of bufferRx, the engine unconstrained
bufferRx == bufferRxOn(PollWords)

\* irqThreshold = (status & 0x00FF0000) >> 16
IrqThreshold(sr) == (sr \div 65536) % 256

\* readyBlocks counted one too many on the not-idle branch
ReadyBlocks_offbyone(sr, n, start, last) ==
    IF (sr \div 2) % 2 = 1 THEN (((n - 1) - start + 1) % 256)
    ELSE IF ((sr \div 65536) % 256) < last
         THEN ((n - ((sr \div 65536) % 256) - start + 1) % 256)
    ELSE 0

\* readyBlocks (uint8_t) of a blockRx iteration that reads sr
ReadyBlocks(sr, n, start, last) ==
    IF isIdle(sr) THEN U8((n - 1) - start + 1)
    ELSE IF IrqThreshold(sr) < last THEN U8(n - IrqThreshold(sr) - start)
    ELSE 0

\* lastIrqThreshold after a blockRx iteration that reads sr
NextIrqThreshold(sr, n, last) ==
    IF isIdle(sr) THEN n
    ELSE IF IrqThreshold(sr) < last THEN IrqThreshold(sr)
    ELSE last

\* blockOffset taken as the descriptor's absolute buffer address
BlockOffsetOf_absolute(m, start, tgt) == getMem(m, BUFFER_ADDRESS + DESC_SIZE * U8(start))

\* blockOffset = getBufferAddress(bdStartIndex) - targetaddr, the index
\* narrowed to uint8_t
BlockOffsetOf(m, start, tgt) == getMem(m, BUFFER_ADDRESS + DESC_SIZE * U8(start)) - tgt

\* blockSize = size * (bdStopIndex - bdStartIndex + 1)
BlockSizeOf(s, start, stop) == s * (stop - start + 1)

\* if(bdStopIndex < (ndesc-1)) bdStartIndex = bdStopIndex + 1
NextStartIndex(start, stop, n) == IF stop < n - 1 THEN stop + 1 ELSE start

\* one iteration of the do-while loop of blockRx, DMASR reading as one of
\* words. The loop reads DMASR twice
\* (status, then isIdle()); it uses the idle bit of one read and the threshold
\* byte of the other, and every such pair is one word of PollWords.
blockRxOn(words) ==
    /\ pc = "poll" /\ rxMode = "block"
    /\ \E sr \in words :
         LET ready == ReadyBlocks(sr, ndesc, bdStartIndex, lastIrqThreshold)
             stop == bdStartIndex + ready - 1
         IN /\ lastIrqThreshold' = NextIrqThreshold(sr, ndesc, lastIrqThreshold)
            /\ blockTransfer' = (IF isIdle(sr) THEN FALSE ELSE blockTransfer)
            /\ UNCHANGED <<channel, regs, size, descaddr, targetaddr, ndesc, initsg,
                           bufferTransfer>>
            /\ IF ready > 0
               THEN /\ bdStopIndex' = stop
                    /\ curWait' = (IF Infinite
                                   THEN calibrateWaitTime(curWait, nloops)
                                   ELSE curWait)
                    /\ IF U8(bdStartIndex) > ndesc - 1
                       THEN /\ Return(E_BOUND, sr)
                            /\ UNCHANGED <<blockOffset, blockSize, bdStartIndex>>
                       ELSE /\ blockOffset' = BlockOffsetOf(bdmem, bdStartIndex, targetaddr)
                            /\ blockSize' = BlockSizeOf(size, bdStartIndex, stop)
                            /\ bdStartIndex' = NextStartIndex(bdStartIndex, stop, ndesc)
                            /\ Return("true", sr)
               ELSE /\ bdStopIndex' = (IF isIdle(sr) THEN ndesc - 1 ELSE bdStopIndex)
                    /\ Sleep(sr)
                    /\ UNCHANGED <<curWait, blockOffset, blockSize, bdStartIndex>>

\* one iteration of the do-while loop of blockRx, the engine unconstrained
blockRx == blockRxOn(PollWords)

\* the DMASR word an engine that runs as hw says shows on the S2MM channel
EngineWord == Dmasr(FALSE, hw.idle, sgIncluded, FALSE, hw.irq)

\* the engine completes a descriptor: the IRQ-threshold byte goes down by one
engineProgress ==
    /\ started /\ ~hw.idle /\ hw.irq > 0
    /\ hw' = [hw EXCEPT !.irq = @ - 1]
    /\ UNCHANGED <<ctrl, bdmem, maps, incIndex, loopv, hist, sgIncluded, started, nrx, rsrc>>

\* the engine, its transfer completed (in SG mode: started, and all
\* descriptors completed), goes idle
engineIdle ==
    /\ sgIncluded => started
    /\ ~hw.idle /\ hw.irq = 0
    /\ hw' = [hw EXCEPT !.idle = TRUE]
    /\ UNCHANGED <<ctrl, bdmem, maps, incIndex, loopv, hist, sgIncluded, started, nrx, rsrc>>

\* the controller as an application drives it; initSG is called once per
\* controller here (the descriptor ring is not resized after initialisation)
\* and the descriptor-table slice below calls it again and again
Next ==
    \/ \E ch \in Channels : setChannel(ch)
    \/ halt
    \/ reset
    \/ \E s \in BlockSizes, a \in TargetAddrs : initDirect(s, a)
    \/ /\ ~initsg
       /\ \E b \in DescBases, n \in 1..MaxN, s \in BlockSizes, t \in TargetAddrs :
             initSG(b, n, s, t)
    \/ run
    \/ \E k \in 0..MaxInc : incSGDescTable(k)
    \/ \E t \in Timeouts : rx(t)
    \/ directRx
    \/ bufferRx
    \/ blockRx

Spec == Init /\ [][Next]_vars

\* the descriptor-table slice: initSG (again and again, with more inputs),
\* incSGDescTable, clearSGDescAllStatus, getSGDescBufferAddress and the
\* engine's STATUS writes
NextTable ==
    \/ \E ch \in Channels \ {"MM2S"} : setChannel(ch)
    \/ \E in \in TableInputs, n \in 1..MaxTableN : initSG(in[1], n, in[2], in[3])
    \/ \E k \in 0..MaxTableInc : incSGDescTable(k)
    \/ clearSGDescAllStatus
    \/ \E d \in 0..MaxTableN : getSGDescBufferAddress(d)
    \/ \E i \in 0..(MaxTableN - 1) : engineStatus(i)

SpecTable == Init /\ [][NextTable]_vars

\* the status-query slice: every call that checks the channel, the mode or
\* initsg before it acts, with rx followed through its direct and
\* buffer-granular polling loops
NextApi ==
    \/ \E ch \in Channels : setChannel(ch)
    \/ halt
    \/ reset
    \/ run
    \/ isIdleCall
    \/ isRunningCall
    \/ isSGCall
    \/ getStatus
    \/ IRQiocCall
    \/ clearIRQioc
    \/ \E s \in BlockSizes, a \in TargetAddrs : initDirect(s, a)
    \/ \E b \in DescBases, n \in 1..MaxN, s \in BlockSizes, t \in TargetAddrs :
          initSG(b, n, s, t)
    \/ \E k \in 0..MaxInc : incSGDescTable(k)
    \/ clearSGDescAllStatus
    \/ dumpSGDescTable
    \/ dumpSGDescAllStatus
    \/ \E d \in 0..MaxN : getSGDescBufferAddress(d)
    \/ \E t \in Timeouts \ {0} : rx(t)
    \/ directRx
    \/ bufferRx

SpecApi == Init /\ [][NextApi]_vars

\* the lifecycle slice: a controller whose constructor may have failed to open
\* /dev/mem or to map the register window, a few of its calls, its destructor,
\* and a DMABuffer object opened, closed and destroyed beside it. initSG is
\* followed only on a controller whose /dev/mem descriptor is valid
InitLife == Construct /\ (\E opened \in BOOLEAN, mapped \in BOOLEAN : Acquire(opened, mapped))
                      /\ DMABuffer

NextLife ==
    \/ life = "live" /\ \E ch \in Channels \ {"MM2S"} : setChannel(ch)
    \/ life = "live" /\ halt
    \/ life = "live" /\ isIdleCall
    \/ /\ life = "live" /\ dh # -1 /\ mem = "mapped" /\ ~initsg
       /\ \E b \in DescBases, s \in BlockSizes, t \in TargetAddrs : initSG(b, 1, s, t)
    \/ segfault
    \/ DMACtrl_destroy
    \/ \E f \in OpenSteps : DMABuffer_open(f)
    \/ DMABuffer_close
    \/ DMABuffer_destroy

SpecLife == InitLife /\ [][NextLife]_vars

\* the timeouts of the long-wait slice, as <<bits 31..30, bits 29..0>>: 1, 100,
\* 250, and 2^32 - 196, 2^32 - 96, 2^32 - 95 and 2^32 - 1
LongTimeouts == {<<0, 1>>, <<0, 100>>, <<0, 250>>, <<3, Part - 196>>, <<3, Part - 96>>,
                 <<3, Part - 95>>, <<3, Part - 1>>}

\* the numbers of iterations fastForward takes at once: 10^9 us and
\* 294 967 000 us of sleeping, which add up to 2^32 - 296 us
FastPolls == {10000000, 2949670}

\* single iterations are followed through the first MaxTail sleeps of a lap of
\* waitTime and through its last MaxTail sleeps before 2^32
InWindow ==
    \/ waitTimeHi = 0 /\ waitTime < MaxTail * minWait
    \/ waitTimeHi = 3 /\ waitTime >= Part - MaxTail * minWait

\* the long-wait slice: rx with timeouts up to 2^32 - 1 in its direct and
\* buffer variants, the tens of millions of iterations in between taken by
\* fastForward
NextLong ==
    \/ setChannel("S2MM")
    \/ /\ ~initsg
       /\ \E b \in DescBases, s \in BlockSizes, a \in TargetAddrs : initSG(b, 1, s, a)
    \/ \E T \in LongTimeouts : rx32(T[1], T[2])
    \/ InWindow /\ directRx
    \/ InWindow /\ bufferRx
    \/ \E k \in FastPolls : fastForward(k)

SpecLong == Init /\ [][NextLong]_vars

\* the ring slice: block-granular rx beside an engine that, once run() has
\* started it, brings the IRQ-threshold byte from N down to 0 and then goes
\* idle; every poll reads the word that engine shows
NextRing ==
    \/ setChannel("S2MM")
    \/ /\ ~initsg
       /\ \E b \in DescBases, n \in 1..MaxN, s \in BlockSizes, a \in TargetAddrs :
             initSG(b, n, s, a)
    \/ run
    \/ started /\ \E t \in Timeouts : rx(t)
    \/ blockRxOn({EngineWord})
    \/ bufferRxOn({EngineWord})
    \/ engineProgress
    \/ engineIdle

SpecRing == Init /\ [][NextRing]_vars

\* the waiting slice: rx in its three variants beside the engine of the ring
\* slice; a polling loop that has been entered goes on executing, so each
\* variant's iteration is taken if it stays enabled
NextLive ==
    \/ setChannel("S2MM")
    \/ \E s \in BlockSizes, a \in TargetAddrs : initDirect(s, a)
    \/ /\ ~initsg
       /\ \E b \in DescBases, n \in 1..MaxN, s \in BlockSizes, a \in TargetAddrs :
             initSG(b, n, s, a)
    \/ run
    \/ (sgIncluded => started) /\ \E t \in Timeouts : rx(t)
    \/ directRxOn({EngineWord})
    \/ blockRxOn({EngineWord})
    \/ bufferRxOn({EngineWord})
    \/ engineProgress
    \/ engineIdle

SpecLive ==
    /\ Init /\ [][NextLive]_vars
    /\ WF_vars(directRxOn({EngineWord}))
    /\ WF_vars(blockRxOn({EngineWord}))
    /\ WF_vars(bufferRxOn({EngineWord}))

\* the initialisation slice: initSG taken statement by statement, any number
\* of times, and run()
NextInit ==
    \/ \E ch \in {"MM2S", "S2MM"} : setChannel(ch)
    \/ \E b \in DescBases, n \in 1..MaxN, s \in BlockSizes, a \in TargetAddrs :
          initSGBegin(b, n, s, a)
    \/ initSGZero
    \/ initSGWrite
    \/ initSGTerm
    \/ initSGCurdesc
    \/ initSGFlag
    \/ run

SpecInit == Init /\ [][NextInit]_vars

\* the wait-time slice: calibrateWaitTime applied, again and again, to an
\* object whose curWait is any value of its range
InitCal == (\E cw \in CalWaits : Fields(cw)) /\ Acquire(TRUE, TRUE) /\ DMABuffer

NextCal == \E count \in CalCounts : calibrateCall(count)

SpecCal == InitCal /\ [][NextCal]_vars

\* ------------------------------------------------------------- properties
\* an rx call has returned true from blockRx
BlockReturn == pc = "ready" /\ lastOp = "rx" /\ rxMode = "block" /\ result = "true"

\* C1: a call of rx on a controller whose channel is set is handed to the
\* variant the decision table names: the direct variant when the SG-included
\* bit is clear; with the bit set, the block variant when blockTransfer is
\* true, the buffer variant when bufferTransfer is true, and with both flags
\* false the block variant when curWait = maxWait and the buffer variant
\* otherwise; the flags decide whatever curWait is.
C1_DispatchTable ==
    [][(pc = "ready" /\ lastOp' = "rx" /\ channel # "UNKNOWN") =>
         /\ (~sgIncluded => rxMode' = "direct")
         /\ (sgIncluded /\ blockTransfer => rxMode' = "block")
         /\ (sgIncluded /\ bufferTransfer => rxMode' = "buffer")
         /\ (sgIncluded /\ ~blockTransfer /\ ~bufferTransfer /\ curWait = maxWait
               => rxMode' = "block")
         /\ (sgIncluded /\ ~blockTransfer /\ ~bufferTransfer /\ curWait # maxWait
               => rxMode' = "buffer")]_vars

\* rx has just been handed to blockRx by the blockTransfer flag, with curWait
\* below maxWait
C1_Witness ==
    pc = "poll" /\ rxMode = "block" /\ nloops = 0 /\ waitTime = 0 /\ curWait < maxWait

\* C2: blockTransfer and bufferTransfer are never both true.
C2_OneFlag == ~(blockTransfer /\ bufferTransfer)

\* blockRx reported progress, left blockTransfer set and halved curWait: a
\* choice by curWait alone would now start a buffer-granular transfer
C2_Witness ==
    BlockReturn /\ blockTransfer /\ ~bufferTransfer /\ curWait < maxWait /\ timeout = 0

\* C3: minWait <= curWait <= maxWait in every state.
C3_CurWaitBounds == minWait <= curWait /\ curWait <= maxWait

\* a blocking rx returned after fewer than minLoop iterations with curWait
\* clamped at minWait (halving from (maxWait - minWait) / 2 reaches 154, then 77)
C3_Witness ==
    pc = "ready" /\ lastOp = "rx" /\ result = "true" /\ timeout = 0 /\ curWait = minWait

\* C4: when rx returns true from blockRx after run() has started the engine,
\* bdStartIndex_before <= bdStopIndex < ndesc, the cursor before the call on
\* the left.
C4_StopInRange ==
    (started /\ BlockReturn) => (pre.bdStartIndex <= bdStopIndex /\ bdStopIndex < ndesc)

\* C5 as stated: when rx returns true from blockRx, blockSize =
\* size * (bdStopIndex - bdStartIndex_before + 1) and blockOffset =
\* size * bdStartIndex_before, whatever calls of incSGDescTable were made.
C5_Original ==
    (started /\ BlockReturn) =>
        /\ blockSize = size * (bdStopIndex - pre.bdStartIndex + 1)
        /\ blockOffset = size * pre.bdStartIndex

\* C5: when rx returns true from blockRx, blockSize =
\* size * (bdStopIndex - bdStartIndex_before + 1) and blockOffset =
\* size * (ndesc * k + bdStartIndex_before), k the argument of the latest
\* incSGDescTable since initSG and 0 when there was none.
C5_Amended ==
    BlockReturn =>
        /\ blockSize = size * (bdStopIndex - pre.bdStartIndex + 1)
        /\ blockOffset = size * (ndesc * incIndex + pre.bdStartIndex)

\* blockRx reported descriptors 1..2 after incSGDescTable(1)
C5_Witness ==
    BlockReturn /\ incIndex = 1 /\ pre.bdStartIndex > 0 /\ bdStopIndex > pre.bdStartIndex

\* the word initSG(base, n, s, tgt) leaves at word index w of the table
InitWord(w, base, n, s, tgt) ==
    LET i == w \div 16
        f == 4 * (w % 16)
    IN IF f = NXTDESC THEN (IF i < n - 1 THEN base + 64 * (i + 1) ELSE 0)
       ELSE IF f = BUFFER_ADDRESS THEN tgt + s * i
       ELSE IF f = CONTROL THEN s
       ELSE 0

\* C6: after initSG(base, N, s, tgt) has succeeded with N >= 1, for every i in
\* 0..N-1 BUFFER_ADDRESS[i] = tgt + s*i, CONTROL[i] = s, NXTDESC[i] =
\* base + 64*(i+1) for i < N-1 and NXTDESC[N-1] = 0, and every other word of
\* the N*64-byte descriptor array, STATUS among them, is 0.
C6_InitSGTable ==
    (lastOp = "initSG" /\ result = "ok") =>
        /\ DOMAIN bdmem = 0..(16 * args[2] - 1)
        /\ \A w \in DOMAIN bdmem :
              bdmem[w] = InitWord(w, args[1], args[2], args[3], args[4])

\* initSG(0x10000000, 4, 2048, 0x70000000) of scenario S2 has succeeded
C6_Witness ==
    lastOp = "initSG" /\ result = "ok" /\ args = <<268435456, 4, 2048, 1879048192>>

\* C7: a call incSGDescTable(k) that succeeds leaves BUFFER_ADDRESS[i] =
\* tgt + s*(N*k + i) for every i in 0..N-1, leaves every other word of the
\* descriptors (NXTDESC, CONTROL, STATUS) as it was, writes no register and
\* leaves the controller's fields, the descriptor cursors among them, as
\* they were; with k = 0 the BUFFER_ADDRESS values are those of initSG.
C7_IncTable ==
    [][(lastOp' = "incSGDescTable" /\ result' = "ok") =>
         /\ DOMAIN bdmem' = DOMAIN bdmem
         /\ \A w \in DOMAIN bdmem :
               bdmem'[w] = IF 4 * (w % 16) = BUFFER_ADDRESS
                           THEN targetaddr + size * (ndesc * args'[1] + w \div 16)
                           ELSE bdmem[w]
         /\ (args'[1] = 0 =>
               \A i \in 0..(ndesc - 1) :
                  getMem(bdmem', BUFFER_ADDRESS + DESC_SIZE * i)
                     = InitWord(16 * i + 2, descaddr, ndesc, size, targetaddr))
         /\ wlog' = <<>>
         /\ UNCHANGED ctrl]_vars

\* incSGDescTable(2) has succeeded on a table of several descriptors, one of
\* them with a STATUS word the engine wrote
C7_Witness ==
    /\ lastOp = "incSGDescTable" /\ result = "ok" /\ args = <<2>> /\ ndesc >= 2
    /\ \E i \in 0..(ndesc - 1) : getMem(bdmem, STATUS + DESC_SIZE * i) # 0

\* the calls that check the channel
GuardedOps ==
    {"halt", "reset", "run", "isIdle", "isRunning", "isSG", "getStatus", "IRQioc",
     "clearIRQioc", "initDirect", "initSG", "rx"}

\* C10: while the channel is UNKNOWN, a call of halt, reset, run, isIdle,
\* isRunning, isSG, getStatus, IRQioc, clearIRQioc, initDirect, initSG or rx
\* fails with "DMA channel is not set", writes no register and no descriptor
\* word, and leaves every field of the controller as it was.
C10_ChannelGuard ==
    [][(pc = "ready" /\ channel = "UNKNOWN" /\ lastOp' \in GuardedOps) =>
         /\ result' = E_CHANNEL
         /\ wlog' = <<>>
         /\ pc' = "ready"
         /\ UNCHANGED <<ctrl, bdmem, maps, incIndex>>]_vars

\* rx has failed on a controller that was initialised by initSG before its
\* channel was set back to UNKNOWN
C10_Witness ==
    /\ channel = "UNKNOWN" /\ regs # "none" /\ initsg
    /\ lastOp = "rx" /\ result = E_CHANNEL

\* C11: an rx call made with the channel set while DMASR shows the halted bit
\* fails with a precondition error in whichever variant it is handed to: it
\* does not enter the polling loop and it leaves both transfer flags as they
\* were.
C11_HaltedFails ==
    [][(pc = "ready" /\ lastOp' = "rx" /\ channel # "UNKNOWN" /\ Bit(status', 0) = 1) =>
         /\ result' \in Errors
         /\ pc' = "ready"
         /\ UNCHANGED <<blockTransfer, bufferTransfer>>]_vars

\* the calls that need an initialised descriptor table whatever the channel
TableOps == {"incSGDescTable", "clearSGDescAllStatus", "dumpSGDescTable",
             "dumpSGDescAllStatus", "getSGDescBufferAddress"}

\* a call made with the channel set that the mode of the core or the missing
\* initSG rules out
WrongMode(op) ==
    /\ channel # "UNKNOWN"
    /\ \/ op = "initDirect" /\ sgIncluded
       \/ op = "initSG" /\ ~sgIncluded
       \/ op \in {"run", "rx"} /\ sgIncluded /\ ~initsg
       \/ op \in TableOps /\ ~initsg

\* C12: with the channel set, initDirect on a core with the SG bit set, initSG
\* on a core with the bit clear, and run, rx and the descriptor-table calls
\* made in SG mode before initSG has completed all fail with an error, write no
\* register and no descriptor, and leave initsg, the cursors and the transfer
\* flags (every field of the object) as they were.
C12_ModeGuards ==
    [][(pc = "ready" /\ WrongMode(lastOp')) =>
         /\ result' \in Errors \ {E_CHANNEL}
         /\ wlog' = <<>>
         /\ pc' = "ready"
         /\ UNCHANGED <<ctrl, bdmem>>]_vars

\* an SG-mode rx on the S2MM channel was refused because initSG had not run
C12_Witness ==
    /\ channel = "S2MM" /\ sgIncluded /\ ~initsg
    /\ result = E_NOINIT
    /\ lastOp = "rx"

\* C13: a run() that starts the SG engine, whatever the state it is called in,
\* leaves blockOffset = blockSize = 0, bdStartIndex = bdStopIndex = 0,
\* lastIrqThreshold = N and both transfer flags false, and the rx call that
\* follows it is handed to the block variant when curWait = maxWait and to the
\* buffer variant otherwise.
C13_RunResets ==
    [][/\ (pc = "ready" /\ lastOp' = "run" /\ result' = "ok" /\ sgIncluded) =>
            /\ blockOffset' = 0 /\ blockSize' = 0
            /\ bdStartIndex' = 0 /\ bdStopIndex' = 0
            /\ lastIrqThreshold' = ndesc
            /\ ~blockTransfer' /\ ~bufferTransfer'
       /\ (pc = "ready" /\ lastOp = "run" /\ result = "ok" /\ sgIncluded /\ lastOp' = "rx") =>
            rxMode' = (IF curWait = maxWait THEN "block" ELSE "buffer")]_vars

\* run() has restarted the SG engine after two or more rx calls, with
\* curWait at maxWait
C13_Witness ==
    /\ lastOp = "run" /\ result = "ok" /\ sgIncluded
    /\ nrx = 2 /\ curWait = maxWait
    /\ lastIrqThreshold = ndesc /\ ~blockTransfer /\ ~bufferTransfer

\* C14: an rx call handed to the buffer variant returns true exactly when its
\* last poll read DMASR with the idle bit set, and then blockOffset = 0,
\* blockSize = blocksize * N and bufferTransfer is false; no step of the call
\* changes bdStartIndex, bdStopIndex or lastIrqThreshold.
C14_BufferReturn ==
    [][/\ (pc = "poll" /\ rxMode = "buffer" /\ pc' = "ready") =>
            /\ result' \in {"true", "false"}
            /\ (result' = "true") <=> isIdle(status')
            /\ (result' = "true") =>
                  (blockOffset' = 0 /\ blockSize' = size * ndesc /\ ~bufferTransfer')
       /\ (lastOp' = "rx" /\ rxMode' = "buffer") =>
            UNCHANGED <<bdStartIndex, bdStopIndex, lastIrqThreshold>>]_vars

\* a buffer-granular rx over two or more descriptors has returned true
C14_Witness ==
    /\ pc = "ready" /\ lastOp = "rx" /\ rxMode = "buffer" /\ result = "true"
    /\ ndesc >= 2 /\ blockSize = size * ndesc /\ size \in BlockSizes

\* C15: on a core without the SG engine, initDirect(blocksize, addr) keeps
\* blocksize in size, where it stays until the next initDirect; run() writes
\* size to the LENGTH register of the selected channel and nothing else; and an
\* rx call on S2MM returns true exactly when its last poll read DMASR with the
\* idle bit set, and then blockOffset = 0 and blockSize = that blocksize.
C15_DirectReturn ==
    [][/\ (pc = "ready" /\ lastOp' = "initDirect" /\ result' = "ok") => size' = args'[1]
       /\ (~sgIncluded /\ ~(lastOp' = "initDirect" /\ result' = "ok")) => size' = size
       /\ (pc = "ready" /\ lastOp' = "run" /\ result' = "ok" /\ ~sgIncluded) =>
            wlog' = <<<<IF channel = "MM2S" THEN 40 ELSE 88, size>>>>
       /\ (pc = "poll" /\ rxMode = "direct" /\ pc' = "ready") =>
            /\ channel = "S2MM"
            /\ result' \in {"true", "false"}
            /\ (result' = "true") <=> isIdle(status')
            /\ (result' = "true") => (blockOffset' = 0 /\ blockSize' = size)]_vars

\* a direct rx on S2MM has returned true with the block size given to
\* initDirect
C15_Witness ==
    /\ pc = "ready" /\ lastOp = "rx" /\ rxMode = "direct" /\ result = "true"
    /\ channel = "S2MM" /\ ~sgIncluded
    /\ size \in BlockSizes /\ blockSize = size /\ blockOffset = 0

\* C16: on a controller initialised with N descriptors,
\* getSGDescBufferAddress(i) with i >= N fails with the out-of-bound error and
\* reads nothing, and with i < N returns the BUFFER_ADDRESS word of
\* descriptor i.
C16_IndexChecked ==
    (lastOp = "getSGDescBufferAddress" /\ initsg) =>
        IF args[1] >= ndesc
        THEN result = E_BOUND /\ got = <<>>
        ELSE result = "ok" /\ got = <<16 * args[1] + 2, bdmem[16 * args[1] + 2]>>

\* C17: DMABuffer::close on an open buffer returns true and leaves the object
\* with no device descriptor (fd = -1, the descriptor closed) and no buffer
\* mapping (the mapping removed, buf no longer pointing at one); on a buffer
\* that is not open it returns false and changes nothing.
C17_CloseReleases ==
    [][(pc = "ready" /\ blife = "live" /\ lastOp' = "close") =>
         IF fd >= 0
         THEN /\ result' = "true"
              /\ fd' = -1 /\ fds'.udmabuf = fds.udmabuf - 1
              /\ buf' # "mapped"
              /\ (buf = "mapped" => maps'.buf = maps.buf - 1)
         ELSE /\ result' = "false"
              /\ UNCHANGED <<fd, buf, fds, maps>>]_vars

\* C18: DMABuffer::open returns true when every step succeeded, and then the
\* object holds a descriptor and a mapping; when the sysfs lookup, the
\* phys_addr or size file, the device open or mmap fails it returns false and
\* the object holds no descriptor and no mapping, none being left open in the
\* process either.
C18_OpenAllOrNothing ==
    [][(pc = "ready" /\ blife = "live" /\ fd = -1 /\ lastOp' = "open") =>
         IF args'[1] = "none"
         THEN result' = "true" /\ fd' >= 0 /\ buf' = "mapped"
         ELSE /\ result' = "false"
              /\ fd' = -1 /\ buf' # "mapped"
              /\ fds'.udmabuf = fds.udmabuf /\ maps'.buf = maps.buf]_vars

\* C19: once a DMACtrl object is destroyed its /dev/mem descriptor is closed
\* and its register-window and descriptor-array mappings are removed; once a
\* DMABuffer object is destroyed its device descriptors are closed and its
\* buffer mappings are removed.
C19_DestroyReleases ==
    /\ life = "destroyed" => (fds.devmem = 0 /\ maps.regs = 0 /\ maps.bd = 0)
    /\ blife = "destroyed" => (fds.udmabuf = 0 /\ maps.buf = 0)

\* C20: when the constructor of DMACtrl could not open /dev/mem or could not
\* map the register window, the construction ends in an error and no call
\* made on the object afterwards gets as far as a register access.
C20_FailedConstruction ==
    mem = "failed" =>
        /\ lastOp = "new" => result \in Errors
        /\ ~(lastOp \in RegisterOps /\ result # E_CHANNEL)

\* C8: an rx call with a nonzero timeout that returns false leaves curWait,
\* blockOffset and blockSize as they were in every iteration, returns with
\* bdStartIndex, bdStopIndex and lastIrqThreshold as they were at the call and
\* with the flag of its variant set, and an rx call that follows it is handed
\* to the same variant.
C8_FalseReturn ==
    [][/\ (started /\ pc = "poll" /\ timeout # 0 /\ result' \in {"pending", "false"})
          => /\ UNCHANGED <<curWait, blockOffset, blockSize>>
             /\ (result' = "false" /\ rxMode = "block" => blockTransfer')
             /\ (result' = "false" /\ rxMode = "buffer" => bufferTransfer')
             /\ (result' = "false" /\ rxMode # "direct"
                   => /\ bdStartIndex' = pre.bdStartIndex
                      /\ bdStopIndex' = pre.bdStopIndex
                      /\ lastIrqThreshold' = pre.lastIrqThreshold)
       /\ (started /\ pc = "ready" /\ lastOp = "rx" /\ result = "false" /\ timeout # 0
             /\ lastOp' = "rx")
          => rxMode' = rxMode]_vars

\* the DMASR word of scenario S3: the IRQ-threshold byte shows ndesc - 1, the
\* idle bit is clear
S3Word == Dmasr(FALSE, FALSE, TRUE, FALSE, ndesc - 1)

\* C9 as stated: on a new controller set to S2MM, initialised by initSG and
\* started by run(), the first rx call, made with a nonzero timeout while
\* DMASR shows IRQ-threshold ndesc - 1 and not idle, returns true with
\* blockOffset = 0, blockSize = size and bdStartIndex = 1.
C9_Original ==
    (started /\ nrx = 1 /\ pc = "ready" /\ lastOp = "rx" /\ timeout # 0
       /\ channel = "S2MM" /\ ndesc >= 2 /\ result \in {"true", "false"}
       /\ status = S3Word)
    => (result = "true" /\ blockOffset = 0 /\ blockSize = size /\ bdStartIndex = 1)

\* C9: when rx is handed to blockRx (curWait = maxWait or blockTransfer set)
\* with bdStartIndex = 0 and lastIrqThreshold = ndesc as run() leaves them,
\* ndesc >= 2 and no incSGDescTable(k) with k # 0 since initSG, and the call,
\* made with a nonzero timeout, ends on a DMASR word showing IRQ-threshold
\* ndesc - 1 and not idle, it returns true with blockOffset = 0, blockSize =
\* size and bdStartIndex = 1.
C9_Amended ==
    (pc = "ready" /\ lastOp = "rx" /\ rxMode = "block" /\ timeout # 0
       /\ pre.bdStartIndex = 0 /\ pre.lastIrqThreshold = ndesc /\ ndesc >= 2
       /\ incIndex = 0 /\ result \in {"true", "false"} /\ status = S3Word)
    => (result = "true" /\ blockOffset = 0 /\ blockSize = size /\ bdStartIndex = 1)

\* scenario S3 on the block-granular path: the first descriptor reported
C9_Witness ==
    /\ started /\ BlockReturn /\ timeout # 0 /\ status = S3Word /\ ndesc >= 2
    /\ pre.bdStartIndex = 0 /\ pre.lastIrqThreshold = ndesc /\ incIndex = 0
    /\ bdStartIndex = 1 /\ blockSize = size

\* the smaller and the larger of two numbers
Min(a, b) == IF a < b THEN a ELSE b
Max(a, b) == IF a > b THEN a ELSE b

\* C21: calibrateWaitTime(nloops) applied to a curWait in [minWait, maxWait]
\* gives min(2 * curWait, maxWait) when nloops > maxLoop, max(curWait div 2,
\* minWait) when nloops < minLoop and the same curWait otherwise; 5000 with
\* 20 iterations gives 10000 and 10000 with 2 iterations gives 5000.
C21_Calibrate ==
    (lastOp = "calibrateWaitTime") =>
        /\ curWait = (IF args[2] > maxLoop THEN Min(2 * args[1], maxWait)
                      ELSE IF args[2] < minLoop THEN Max(args[1] \div 2, minWait)
                      ELSE args[1])
        /\ args = <<5000, 20>> => curWait = 10000
        /\ args = <<10000, 2>> => curWait = 5000

\* calibrateWaitTime has doubled 5000 to 10000 after 20 iterations
C21_Witness ==
    lastOp = "calibrateWaitTime" /\ args = <<5000, 20>> /\ curWait = 10000

C23_TimeoutPolls ==
    [][/\ (pc = "ready" /\ lastOp' = "rx" /\ result' \notin Errors) => pc' = "poll"
       /\ (pc = "poll" /\ ~Infinite) =>
            /\ step = minWait
            /\ pc' = "poll" =>
                  /\ Lt32(waitTimeHi, waitTime, waitTimeHi', waitTime')
                  /\ Lt32(waitTimeHi', waitTime', timeoutHi, timeout)
            /\ (pc' = "ready" /\ result' = "false") =>
                  ~Lt32(waitTimeHi + (waitTime + minWait) \div Part,
                        (waitTime + minWait) % Part, timeoutHi, timeout)]_vars

\* C24: a run() that starts the SG engine writes DMACR = (N << 16) | 0x1011
\* first and TAILDESC = descaddr + 64 * (N - 1) second, at the offsets of the
\* selected channel (0x00 and 0x10 on MM2S, 0x30 and 0x40 on S2MM), and writes
\* no other register and no descriptor word.
C24_RunSGWrites ==
    [][(pc = "ready" /\ lastOp' = "run" /\ result' = "ok" /\ sgIncluded) =>
         /\ initsg
         /\ wlog' = <<<<IF channel = "MM2S" THEN 0 ELSE 48, ndesc * 65536 + 4113>>,
                      <<IF channel = "MM2S" THEN 16 ELSE 64, descaddr + 64 * (ndesc - 1)>>>>
         /\ bdmem' = bdmem]_vars

\* run() has started the SG engine on the S2MM channel over three descriptors
C24_Witness ==
    /\ lastOp = "run" /\ result = "ok" /\ sgIncluded /\ channel = "S2MM" /\ ndesc = 3
    /\ wlog = <<<<48, 200721>>, <<64, descaddr + 128>>>>

\* C25: between one run() and the next, beside an engine that brings the
\* IRQ-threshold byte from N down to 0 and then goes idle, the descriptor
\* ranges reported by successive block-mode rx calls that return true are
\* ascending and disjoint: a call that returns true after an earlier call
\* since run() has reported a range on the threshold byte (which left
\* lastIrqThreshold below N) starts above the last descriptor that one
\* reported.
C25_AscendingRanges ==
    (started /\ BlockReturn /\ ndesc >= 2 /\ pre.lastIrqThreshold < ndesc) =>
        pre.bdStopIndex < pre.bdStartIndex

\* an rx(0) is polling in variant v
Waiting(v) == pc = "poll" /\ Infinite /\ rxMode = v

\* an rx call of variant v has returned true
Received(v) == pc = "ready" /\ lastOp = "rx" /\ rxMode = v /\ result = "true"

RingWritten ==
    /\ DOMAIN bdmem = 0..(16 * ndesc - 1)
    /\ \A d \in 0..(ndesc - 1) :
         /\ getMem(bdmem, NXTDESC + DESC_SIZE * d)
               = (IF d = ndesc - 1 THEN 0 ELSE descaddr + DESC_SIZE * (d + 1))
         /\ getMem(bdmem, BUFFER_ADDRESS + DESC_SIZE * d) = targetaddr + size * d
         /\ getMem(bdmem, CONTROL + DESC_SIZE * d) = size
         /\ \A w \in 0..15 :
               4 * w \notin {NXTDESC, BUFFER_ADDRESS, CONTROL} => bdmem[16 * d + w] = 0

\* the order of the writes of an initSG call: a write to descriptor memory
\* comes before the write of CURDESC; CURDESC is written with descaddr, once,
\* on a fully written ring; initsg is assigned after that, and the call
\* returns with initsg set
InitOrder ==
    /\ (pc # "ready" /\ bdmem' # bdmem) => (wlog = <<>> /\ wlog' = <<>>)
    /\ (pc # "ready" /\ wlog' # wlog) =>
          /\ RingWritten /\ bdmem' = bdmem
          /\ wlog' = <<<<IF channel = "MM2S" THEN 8 ELSE 56, descaddr>>>>
    /\ (pc # "ready" /\ initsg' # initsg) => (RingWritten /\ Len(wlog) = 1)
    /\ (pc # "ready" /\ pc' = "ready") => (initsg' /\ RingWritten' /\ Len(wlog') = 1)

\* a run() that starts the SG engine finds the ring fully written
RunOnWrittenRing ==
    (pc = "ready" /\ lastOp' = "run" /\ result' = "ok" /\ sgIncluded) => RingWritten

\* C27 as stated: initSG performs every descriptor-memory write before it
\* writes CURDESC and sets initsg only after CURDESC is written; hence in
\* every state where initsg is true the descriptor ring is fully written, and
\* run() never starts the engine on a partially written ring.
C27_Original ==
    /\ [][InitOrder]_vars
    /\ [](initsg => RingWritten)
    /\ [][RunOnWrittenRing]_vars

\* C27, amended: the order of the writes as stated; the ring is fully written
\* in every state where initsg is true and no initSG call is in progress (a
\* repeated initSG rewrites the ring with initsg still set by the earlier
\* call), and run(), which executes only between calls, never starts the
\* engine on a partially written ring.
C27_Amended ==
    /\ [][InitOrder]_vars
    /\ [](initsg /\ pc = "ready" => RingWritten)
    /\ [][RunOnWrittenRing]_vars

\* run() has started the engine on a ring of MaxN descriptors that a second
\* initSG call had written
C27_Witness ==
    /\ pc = "ready" /\ lastOp = "run" /\ result = "ok" /\ sgIncluded
    /\ initsg /\ maps.bd = 2 /\ ndesc = MaxN /\ RingWritten
====
